---- MODULE Spec2Model ----
(***************************************************************************)
(* RecordService of invenio-records-resources                              *)
(* (src/invenio_records_resources/services/records/service.py).            *)
(*                                                                         *)
(* Every public operation (search, create, read, update, delete) is a      *)
(* straight-line sequence of calls; each call is one step of the model and *)
(* any call may raise, which ends the operation.  A request runs on a      *)
(* thread; db.session is the thread's ambient transaction.                 *)
(***************************************************************************)
EXTENDS Naturals, Sequences, FiniteSets, TLC

\* ------------------------------------------------------------------ bounds
MaxRecords == 2
MaxCalls == 3

\* The threads that serve requests; each has its own db.session.
Threads == {"main", "other"}
PIDs == 1..MaxRecords

\* ------------------------------------------------------------------ values
Missing == "missing"
Null == "null"
InputFields == {"title", "note"}
AllFields == {"title", "note", "slug"}

EmptyPayload == [f \in AllFields |-> Missing]

\* Payloads a caller may submit: title is absent, a string, an explicit null
\* or a value the schema rejects; note is absent or a string.
Payload(a, b) ==
    [f \in AllFields |-> IF f = "title" THEN a ELSE IF f = "note" THEN b ELSE Missing]
RawPayloads ==
    { Payload(Missing, Missing), Payload("X", Missing), Payload(Null, Missing),
      Payload(Missing, "N"), Payload("X", "N"), Payload("BAD", Missing) }

Identities == {"admin", "searcher", "anon"}
Operations == {"search", "create", "read", "update", "delete"}

\* Search parameters: page (0 = not given) and sort ("" = not given).
Params == {[page |-> 0, sort |-> ""], [page |-> 2, sort |-> "-created"]}

NoRecord == [pid |-> 0, data |-> EmptyPayload]
NoSearch == [index |-> "", filter |-> [action |-> "", identity |-> ""],
             preference |-> FALSE, version |-> FALSE, track_total_hits |-> FALSE,
             clauses |-> << >>]
NoData == EmptyPayload
NoParams == [page |-> 0, sort |-> ""]
NoRet == [item |-> NoRecord, hits |-> {}]

\* A row of the store, of a session or of the index.
Row(st, d) == [st |-> st, data |-> d]
Absent == Row("absent", EmptyPayload)
Untouched == Row("none", EmptyPayload)

Ev(kind, who, ok) == [e |-> kind, c |-> who, ok |-> ok]

\* Nobody has written the row or the document yet.
NoWriter == [store |-> "", index |-> ""]

\* No create or update has returned since the last commit.
NoWrite == [kind |-> "none", pid |-> 0, data |-> EmptyPayload]

VARIABLES
    config,     \* the service configuration, fixed at construction
    db,         \* committed rows of the persistent store, by PID
    index,      \* documents of the search index, by PID
    session,    \* per thread: rows pending in db.session
    nextPid,    \* the next PID record_cls.create assigns
    op,         \* per thread: the operation in progress ("none": idle)
    pc,         \* per thread: position in the operation's program
    identity,   \* per thread: argument identity
    id_,        \* per thread: argument id_
    data,       \* per thread: argument data, then the validated data
    params,     \* per thread: argument params
    record,     \* per thread: the local variable record
    search,     \* per thread: the local variable search
    trace,      \* per thread: the calls the operation has made so far
    result,     \* per thread: "none" while running, "ok" or the error raised
    ret,        \* per thread: the value returned
    before,     \* per thread: the store and the index when the operation started
    deleted,    \* PIDs for which delete has returned True
    last,       \* the create or update that returned since the last commit
    writer,     \* per PID: the threads that last wrote its row and its document
    ncalls      \* the number of operations called so far

globals == <<config, db, index, session, nextPid, deleted, last, writer, ncalls>>
args == <<op, identity, id_, params, before>>
locals == <<pc, record, search, trace, result, ret>>
vars == <<config, db, index, session, nextPid, deleted, last, writer, ncalls,
          op, identity, id_, params, before,
          pc, data, record, search, trace, result, ret>>


\* ----------------------------------------------------------- configuration
\* Components and the hooks each one has (hasattr).  Data stores the
\* validated data in the record, Mark derives slug from the record's title,
\* Facet narrows searches, Audit only observes reads and deletes.
Hooks(c) ==
    CASE c = "Data"  -> {"create", "update"}
      [] c = "Mark"  -> {"create", "update"}
      [] c = "Facet" -> {"search"}
      [] c = "Audit" -> {"read", "delete"}
      [] OTHER       -> {}

Configs ==
    { [components |-> <<"Data", "Facet", "Mark", "Audit">>,
       interpreters |-> <<"Pagination", "Sort">>],
      [components |-> <<"Facet", "Audit">>,
       interpreters |-> <<"Pagination", "Sort">>] }

lt_es7 == FALSE

\* The permission policy: the actions each identity is allowed.
Allowed(i) ==
    CASE i = "admin"    -> Operations
      [] i = "searcher" -> {"search"}
      [] OTHER          -> {}

\* ------------------------------------------------------------ collaborators
\* Service.require_permission: TRUE when it returns, FALSE when it raises.
PermissionAllows(i, action) == action \in Allowed(i)

\* schema.load: a payload with a rejected value raises ValidationError.
SchemaValid(d) == \A f \in AllFields : d[f] # "BAD"
SchemaLoad(d) == d

\* dict.update: the keys of d overwrite those of r, the others stay.
DictUpdate(r, d) == [f \in AllFields |-> IF d[f] # Missing THEN d[f] ELSE r[f]]

\* Record.clear_none: keys whose value is None are removed.
ClearNone(r) == [f \in AllFields |-> IF r[f] = Null THEN Missing ELSE r[f]]

\* What a thread's session sees: its pending rows over the committed ones.
View(t) == [p \in PIDs |-> IF session[t][p].st # "none" THEN session[t][p] ELSE db[p]]

\* db.session.commit: the pending rows become the committed ones.
Committed(t) == View(t)

EmptySession == [p \in PIDs |-> Untouched]

\* The store and the index as an operation on thread t finds them.
Snapshot(t) == [db |-> db, index |-> index, session |-> session[t],
                nextPid |-> nextPid, last |-> last]
NoSnapshot == [db |-> [p \in PIDs |-> Absent], index |-> [p \in PIDs |-> Absent],
               session |-> EmptySession, nextPid |-> 1, last |-> NoWrite]

\* A component's create/update/read/delete hook acting on the record.
HookRecord(c, o, d, r) ==
    CASE c = "Data" -> DictUpdate(r, d)
      [] c = "Mark" -> IF r["title"] \notin {Missing, Null}
                       THEN [r EXCEPT !["slug"] = r["title"]]
                       ELSE r
      [] OTHER      -> r

\* A component's search hook: returns the search with one more clause.
HookSearch(c, s) == [s EXCEPT !.clauses = Append(@, "facet")]

\* interpreter_cls(config).apply(identity, search, params)
InterpreterApply(n, s, prm) ==
    CASE n = "Pagination" /\ prm.page # 0 ->
            [s EXCEPT !.clauses = Append(@, "from_size")]
      [] n = "Sort" /\ prm.sort # "" ->
            [s EXCEPT !.clauses = Append(@, "sort")]
      [] OTHER -> s

\* permission_filter(permission) as a predicate on documents.
FilterAllows(flt) == flt.action \in Allowed(flt.identity)

\* search.execute(): the PIDs of the documents the query matches.
Execute(s) == IF FilterAllows(s.filter)
              THEN {p \in PIDs : index[p].st = "live"}
              ELSE {}

\* --------------------------------------------------------------- programs
\* RecordService.create_search
CreateSearch(i, action, preference) ==
    [index |-> "records", filter |-> [action |-> action, identity |-> i],
     preference |-> preference, version |-> TRUE,
     track_total_hits |-> ~lt_es7, clauses |-> << >>]

\* search_request deriving the filter from the "search" permission.
SearchRequestWrongAction(i, preference) == CreateSearch(i, "search", preference)

\* RecordService.search_request, before its loop over the interpreters
SearchRequest(i, preference) == CreateSearch(i, "read", preference)

\* _create with the permission check left until after the commit.
CreateProgramPermLate ==
    <<"load", "alloc", "hooks", "rcommit", "commit", "perm", "index", "result">>
\* _create indexing the record before the transaction is committed.
CreateProgramIndexFirst ==
    <<"perm", "load", "alloc", "hooks", "rcommit", "index", "commit", "result">>
\* _create committing the record before the components have filled it in.
CreateProgramHooksLate ==
    <<"perm", "load", "alloc", "rcommit", "hooks", "commit", "index", "result">>
\* _create allocating the record before the data is validated.
CreateProgramAllocFirst ==
    <<"perm", "alloc", "load", "hooks", "rcommit", "commit", "index", "result">>
\* _create applying the validated data onto the record itself.
CreateProgramApplies ==
    <<"perm", "load", "alloc", "hooks", "apply", "rcommit", "commit", "index", "result">>
\* delete without its permission check.
DeleteProgramNoPerm ==
    <<"resolve", "hooks", "rdelete", "commit", "idxdel", "result">>
\* delete that never calls record.delete().
DeleteProgramNoDelete ==
    <<"resolve", "perm", "hooks", "commit", "idxdel", "result">>
\* delete running the component hooks before its permission check.
DeleteProgramHooksFirst ==
    <<"resolve", "hooks", "perm", "rdelete", "commit", "idxdel", "result">>
\* update applying the data onto the record before the components run.
UpdateProgramApplyFirst ==
    <<"resolve", "perm", "load", "apply", "hooks", "clear_none",
      "rcommit", "commit", "index", "result">>
\* update committing the record without stripping its nulls.
UpdateProgramKeepsNone ==
    <<"resolve", "perm", "load", "hooks", "apply", "rcommit", "commit", "index", "result">>
\* update indexing the record as resolved, before the data is applied to it.
UpdateProgramIndexBeforeApply ==
    <<"resolve", "perm", "load", "hooks", "index", "apply", "clear_none",
      "rcommit", "commit", "result">>
\* update indexing the record before the transaction is committed.
UpdateProgramIndexFirst ==
    <<"resolve", "perm", "load", "hooks", "apply", "clear_none",
      "rcommit", "index", "commit", "result">>

\* search running the component hooks before the parameter interpreters.
SearchProgramHooksFirst ==
    <<"perm", "search_request", "hooks", "interpreters", "execute", "result">>
\* read committing the record it has read.
ReadProgramCommits ==
    <<"resolve", "perm", "hooks", "rcommit", "commit", "result">>
\* read checking the permission before it resolves the id.
ReadProgramPermFirst ==
    <<"perm", "resolve", "hooks", "result">>

\* The statements of each operation, in the order the code runs them.
SearchProgram ==
    <<"perm", "search_request", "interpreters", "hooks", "execute", "result">>
CreateProgram ==
    <<"perm", "load", "alloc", "hooks", "rcommit", "commit", "index", "result">>
ReadProgram ==
    <<"resolve", "perm", "hooks", "result">>
UpdateProgram ==
    <<"resolve", "perm", "load", "hooks", "apply", "clear_none",
      "rcommit", "commit", "index", "result">>
DeleteProgram ==
    <<"resolve", "perm", "hooks", "rdelete", "commit", "idxdel", "result">>

Program(o) ==
    CASE o = "search" -> SearchProgram
      [] o = "create" -> CreateProgram
      [] o = "read"   -> ReadProgram
      [] o = "update" -> UpdateProgram
      [] o = "delete" -> DeleteProgram
      [] OTHER        -> << >>

\* The components taken in the reverse of the configured order.
ComponentsReversed ==
    [k \in 1..Len(config.components) |->
        config.components[Len(config.components) + 1 - k]]

\* RecordService.components: the configured components, in their order
Components == config.components

\* hasattr(component, <operation>)
HasHook(c, o) == o \in Hooks(c)

\* Every hook handed a copy of the record: what the hooks write is lost.
RunHooksOnCopies(cs, o, d, r) == r

\* The record after the hooks of the components cs, run in order.
RECURSIVE RunHooks(_, _, _, _)
RunHooks(cs, o, d, r) ==
    IF cs = << >> THEN r
    ELSE RunHooks(Tail(cs), o, d,
                  IF HasHook(Head(cs), o) THEN HookRecord(Head(cs), o, d, r) ELSE r)

\* The search after the search hooks of the components cs, run in order.
RECURSIVE RunSearchHooks(_, _)
RunSearchHooks(cs, s) ==
    IF cs = << >> THEN s
    ELSE RunSearchHooks(Tail(cs),
                        IF HasHook(Head(cs), "search") THEN HookSearch(Head(cs), s) ELSE s)

\* The hook calls made on the components cs: those that have the hook.
RECURSIVE HookCalls(_, _)
HookCalls(cs, o) ==
    IF cs = << >> THEN << >>
    ELSE (IF HasHook(Head(cs), o) THEN <<Ev("hook", Head(cs), TRUE)>> ELSE << >>)
         \o HookCalls(Tail(cs), o)

\* The search after the interpreters ns, applied in order.
RECURSIVE RunInterpreters(_, _, _)
RunInterpreters(ns, s, prm) ==
    IF ns = << >> THEN s
    ELSE RunInterpreters(Tail(ns), InterpreterApply(Head(ns), s, prm), prm)

InterpreterCalls(ns) == [k \in 1..Len(ns) |-> Ev("interpreter", ns[k], TRUE)]

Idle(t) == op[t] = "none"
Running(t) == op[t] # "none" /\ result[t] = "none"
Done(t) == op[t] # "none" /\ result[t] # "none"
At(t, kind) == Running(t) /\ Program(op[t])[pc[t]] = kind

\* ------------------------------------------------------------------- Init
Init ==
    /\ config \in Configs
    /\ db = [p \in PIDs |-> Absent]
    /\ index = [p \in PIDs |-> Absent]
    /\ session = [t \in Threads |-> EmptySession]
    /\ nextPid = 1
    /\ deleted = {}
    /\ ncalls = 0
    /\ last = NoWrite
    /\ writer = [p \in PIDs |-> NoWriter]
    /\ op = [t \in Threads |-> "none"]
    /\ pc = [t \in Threads |-> 1]
    /\ identity = [t \in Threads |-> ""]
    /\ id_ = [t \in Threads |-> 0]
    /\ data = [t \in Threads |-> NoData]
    /\ params = [t \in Threads |-> NoParams]
    /\ record = [t \in Threads |-> NoRecord]
    /\ search = [t \in Threads |-> NoSearch]
    /\ trace = [t \in Threads |-> << >>]
    /\ result = [t \in Threads |-> "none"]
    /\ ret = [t \in Threads |-> NoRet]
    /\ before = [t \in Threads |-> NoSnapshot]

\* -------------------------------------------------------------- transitions
\* The statement at pc[t] returned: the calls in calls were made, go on.
Advance(t, calls) ==
    /\ pc' = [pc EXCEPT ![t] = @ + 1]
    /\ trace' = [trace EXCEPT ![t] = @ \o calls]
    /\ UNCHANGED <<result, ret>>

\* The statement at pc[t] raised err: the operation ends there.
Raise(t, calls, err) ==
    /\ result' = [result EXCEPT ![t] = err]
    /\ trace' = [trace EXCEPT ![t] = @ \o calls]
    /\ UNCHANGED <<pc, ret>>

\* Creates that have started and not yet taken their PID.
PendingCreates ==
    {t \in Threads : Running(t) /\ op[t] = "create"
                     /\ \A k \in 1..Len(trace[t]) : trace[t][k].e # "alloc"}

\* A caller invokes operation o on thread t.
Call(t, o, i, p, d, prm) ==
    /\ Idle(t)
    /\ ncalls < MaxCalls
    /\ ncalls' = ncalls + 1
    /\ o = "create" => nextPid + Cardinality(PendingCreates) <= MaxRecords
    /\ op' = [op EXCEPT ![t] = o]
    /\ identity' = [identity EXCEPT ![t] = i]
    /\ id_' = [id_ EXCEPT ![t] = IF o \in {"read", "update", "delete"} THEN p ELSE 0]
    /\ data' = [data EXCEPT ![t] = IF o \in {"create", "update"} THEN d ELSE NoData]
    /\ params' = [params EXCEPT ![t] = IF o = "search" THEN prm ELSE NoParams]
    /\ before' = [before EXCEPT ![t] = Snapshot(t)]
    /\ UNCHANGED <<config, db, index, session, nextPid, deleted, last, writer, locals>>

\* Requests arrive one at a time, on the same thread.
Start(t) ==
    /\ t = "main"
    /\ \A u \in Threads : Idle(u)
    /\ \E o \in Operations, i \in Identities, p \in PIDs,
          d \in RawPayloads, prm \in Params : Call(t, o, i, p, d, prm)

\* The caller has the result; the thread is free for the next request.
Return(t) ==
    /\ Done(t)
    /\ op' = [op EXCEPT ![t] = "none"]
    /\ pc' = [pc EXCEPT ![t] = 1]
    /\ identity' = [identity EXCEPT ![t] = ""]
    /\ id_' = [id_ EXCEPT ![t] = 0]
    /\ data' = [data EXCEPT ![t] = NoData]
    /\ params' = [params EXCEPT ![t] = NoParams]
    /\ record' = [record EXCEPT ![t] = NoRecord]
    /\ search' = [search EXCEPT ![t] = NoSearch]
    /\ trace' = [trace EXCEPT ![t] = << >>]
    /\ result' = [result EXCEPT ![t] = "none"]
    /\ ret' = [ret EXCEPT ![t] = NoRet]
    /\ before' = [before EXCEPT ![t] = NoSnapshot]
    /\ UNCHANGED globals

\* self.require_permission(identity, <operation>[, record=record])
RequirePermission(t) ==
    /\ At(t, "perm")
    /\ IF PermissionAllows(identity[t], op[t])
       THEN Advance(t, <<Ev("perm", op[t], TRUE)>>)
       ELSE Raise(t, <<Ev("perm", op[t], FALSE)>>, "PermissionDenied")
    /\ UNCHANGED <<globals, args, data, record, search>>

\* record = self.record_cls.pid.resolve(id_)
Resolve(t) ==
    /\ At(t, "resolve")
    /\ IF View(t)[id_[t]].st = "live"
       THEN /\ record' = [record EXCEPT ![t] =
                             [pid |-> id_[t], data |-> View(t)[id_[t]].data]]
            /\ Advance(t, <<Ev("resolve", "", TRUE)>>)
       ELSE /\ UNCHANGED record
            /\ Raise(t, <<Ev("resolve", "", FALSE)>>, "NotFound")
    /\ UNCHANGED <<globals, args, data, search>>

\* data, _ = self.schema.load(identity, data, ...)
Load(t) ==
    /\ At(t, "load")
    /\ IF SchemaValid(data[t])
       THEN /\ data' = [data EXCEPT ![t] = SchemaLoad(@)]
            /\ Advance(t, <<Ev("load", "", TRUE)>>)
       ELSE /\ UNCHANGED data
            /\ Raise(t, <<Ev("load", "", FALSE)>>, "ValidationError")
    /\ UNCHANGED <<globals, args, record, search>>

\* record = record_cls.create({}): a new PID and an empty row in the session
Allocate(t) ==
    /\ At(t, "alloc")
    /\ nextPid <= MaxRecords
    /\ record' = [record EXCEPT ![t] = [pid |-> nextPid, data |-> EmptyPayload]]
    /\ session' = [session EXCEPT ![t][nextPid] = Row("live", EmptyPayload)]
    /\ nextPid' = nextPid + 1
    /\ Advance(t, <<Ev("alloc", "", TRUE)>>)
    /\ UNCHANGED <<config, db, index, deleted, last, writer, ncalls, args, data, search>>

\* for component in self.components: if hasattr(component, <operation>): ...
\* The hooks of the first n components return; the next one, if any, raises.
ComponentLoop(t) ==
    /\ At(t, "hooks")
    /\ \E n \in 0..Len(Components) :
          LET ran == SubSeq(Components, 1, n) IN
          /\ IF op[t] = "search"
             THEN /\ search' = [search EXCEPT ![t] = RunSearchHooks(ran, @)]
                  /\ UNCHANGED record
             ELSE /\ record' = [record EXCEPT ![t].data =
                                   RunHooks(ran, op[t], data[t], @)]
                  /\ UNCHANGED search
          /\ IF n = Len(Components)
             THEN Advance(t, HookCalls(ran, op[t]))
             ELSE /\ HasHook(Components[n + 1], op[t])
                  /\ Raise(t, Append(HookCalls(ran, op[t]),
                                     Ev("hook", Components[n + 1], FALSE)),
                           "ComponentError")
    /\ UNCHANGED <<globals, args, data>>

\* record.update(data)
Apply(t) ==
    /\ At(t, "apply")
    /\ record' = [record EXCEPT ![t].data = DictUpdate(@, data[t])]
    /\ Advance(t, <<Ev("apply", "", TRUE)>>)
    /\ UNCHANGED <<globals, args, data, search>>

\* record.clear_none()
StripNone(t) ==
    /\ At(t, "clear_none")
    /\ record' = [record EXCEPT ![t].data = ClearNone(@)]
    /\ Advance(t, <<Ev("clear_none", "", TRUE)>>)
    /\ UNCHANGED <<globals, args, data, search>>

\* record.commit(): the record's payload goes into the session
RecordCommit(t) ==
    /\ At(t, "rcommit")
    /\ session' = [session EXCEPT ![t][record[t].pid] = Row("live", record[t].data)]
    /\ Advance(t, <<Ev("rcommit", "", TRUE)>>)
    /\ UNCHANGED <<config, db, index, nextPid, deleted, last, writer, ncalls, args, data, record, search>>

\* record.delete(): the deletion goes into the session
RecordDelete(t) ==
    /\ At(t, "rdelete")
    /\ session' = [session EXCEPT ![t][record[t].pid] = Row("deleted", EmptyPayload)]
    /\ Advance(t, <<Ev("rdelete", "", TRUE)>>)
    /\ UNCHANGED <<config, db, index, nextPid, deleted, last, writer, ncalls, args, data, record, search>>

\* db.session.commit(): all or nothing; a failed commit is rolled back
SessionCommit(t) ==
    /\ At(t, "commit")
    /\ \/ /\ db' = Committed(t)
          /\ last' = NoWrite
          /\ writer' = [p \in PIDs |-> IF session[t][p].st # "none"
                                       THEN [writer[p] EXCEPT !.store = t]
                                       ELSE writer[p]]
          /\ Advance(t, <<Ev("commit", "", TRUE)>>)
       \/ /\ UNCHANGED <<db, last, writer>>
          /\ Raise(t, <<Ev("commit", "", FALSE)>>, "StoreError")
    /\ session' = [session EXCEPT ![t] = EmptySession]
    /\ UNCHANGED <<config, index, nextPid, deleted, ncalls, args, data, record, search>>

\* self.indexer.index(record)
Index(t) ==
    /\ At(t, "index")
    /\ \/ /\ index' = [index EXCEPT ![record[t].pid] = Row("live", record[t].data)]
          /\ writer' = [writer EXCEPT ![record[t].pid].index = t]
          /\ Advance(t, <<Ev("index", "", TRUE)>>)
       \/ /\ UNCHANGED <<index, writer>>
          /\ Raise(t, <<Ev("index", "", FALSE)>>, "IndexError")
    /\ UNCHANGED <<config, db, session, nextPid, deleted, last, ncalls, args, data, record, search>>

\* self.indexer.delete(record)
IndexDelete(t) ==
    /\ At(t, "idxdel")
    /\ \/ /\ index' = [index EXCEPT ![record[t].pid] = Absent]
          /\ writer' = [writer EXCEPT ![record[t].pid].index = t]
          /\ Advance(t, <<Ev("idxdel", "", TRUE)>>)
       \/ /\ UNCHANGED <<index, writer>>
          /\ Raise(t, <<Ev("idxdel", "", FALSE)>>, "IndexError")
    /\ UNCHANGED <<config, db, session, nextPid, deleted, last, ncalls, args, data, record, search>>

\* search = self.search_request(identity, params, self.record_cls, preference=False)
BuildSearch(t) ==
    /\ At(t, "search_request")
    /\ search' = [search EXCEPT ![t] = SearchRequest(identity[t], FALSE)]
    /\ Advance(t, <<Ev("search_request", "", TRUE)>>)
    /\ UNCHANGED <<globals, args, data, record>>

\* for interpreter_cls in self.config.search_params_interpreters_cls: ...
\* The first n interpreters return; the next one, if any, raises.
InterpreterLoop(t) ==
    /\ At(t, "interpreters")
    /\ \E n \in 0..Len(config.interpreters) :
          LET ran == SubSeq(config.interpreters, 1, n) IN
          /\ search' = [search EXCEPT ![t] = RunInterpreters(ran, @, params[t])]
          /\ IF n = Len(config.interpreters)
             THEN Advance(t, InterpreterCalls(ran))
             ELSE Raise(t, Append(InterpreterCalls(ran),
                                  Ev("interpreter", config.interpreters[n + 1], FALSE)),
                        "ValidationError")
    /\ UNCHANGED <<globals, args, data, record>>

\* search_result = search.execute()
ExecuteSearch(t) ==
    /\ At(t, "execute")
    /\ \/ /\ pc' = [pc EXCEPT ![t] = @ + 1]
          /\ trace' = [trace EXCEPT ![t] = Append(@, Ev("execute", "", TRUE))]
          /\ ret' = [ret EXCEPT ![t].hits = Execute(search[t])]
          /\ UNCHANGED result
       \/ Raise(t, <<Ev("execute", "", FALSE)>>, "IndexError")
    /\ UNCHANGED <<globals, args, data, record, search>>

\* return self.result_item(...) / self.result_list(...) / True
ReturnValue(t) ==
    /\ At(t, "result")
    /\ result' = [result EXCEPT ![t] = "ok"]
    /\ ret' = [ret EXCEPT ![t].item =
                  IF op[t] \in {"create", "read", "update"} THEN record[t] ELSE @]
    /\ deleted' = IF op[t] = "delete" THEN deleted \cup {record[t].pid} ELSE deleted
    /\ last' = IF op[t] \in {"create", "update"}
               THEN [kind |-> op[t], pid |-> record[t].pid, data |-> data[t]]
               ELSE last
    /\ UNCHANGED <<config, db, index, session, nextPid, writer, ncalls, args, pc, data,
                   record, search, trace>>

Step(t) ==
    \/ RequirePermission(t)
    \/ Resolve(t)
    \/ Load(t)
    \/ Allocate(t)
    \/ ComponentLoop(t)
    \/ Apply(t)
    \/ StripNone(t)
    \/ RecordCommit(t)
    \/ RecordDelete(t)
    \/ SessionCommit(t)
    \/ Index(t)
    \/ IndexDelete(t)
    \/ BuildSearch(t)
    \/ InterpreterLoop(t)
    \/ ExecuteSearch(t)
    \/ ReturnValue(t)

Next == \E t \in Threads : Start(t) \/ Step(t) \/ Return(t)

Spec == Init /\ [][Next]_vars

\* ------------------------------------------------- concurrent update requests
\* The service after one create has returned: record 1 is stored and indexed
\* with what the create hooks made of some valid payload.
InitConcurrent ==
    /\ config \in Configs
    /\ \E d \in {x \in RawPayloads : SchemaValid(x)} :
          db = [p \in PIDs |->
                   IF p = 1
                   THEN Row("live", RunHooks(config.components, "create", d, EmptyPayload))
                   ELSE Absent]
    /\ index = db
    /\ session = [t \in Threads |-> EmptySession]
    /\ nextPid = 2
    /\ deleted = {}
    /\ ncalls = 0
    /\ last = NoWrite
    /\ writer = [p \in PIDs |-> NoWriter]
    /\ op = [t \in Threads |-> "none"]
    /\ pc = [t \in Threads |-> 1]
    /\ identity = [t \in Threads |-> ""]
    /\ id_ = [t \in Threads |-> 0]
    /\ data = [t \in Threads |-> NoData]
    /\ params = [t \in Threads |-> NoParams]
    /\ record = [t \in Threads |-> NoRecord]
    /\ search = [t \in Threads |-> NoSearch]
    /\ trace = [t \in Threads |-> << >>]
    /\ result = [t \in Threads |-> "none"]
    /\ ret = [t \in Threads |-> NoRet]
    /\ before = [t \in Threads |-> NoSnapshot]

\* An update request arrives on a free thread, whatever the other thread
\* does; as many requests arrive as there are threads to run them at once.
StartUpdate(t) ==
    /\ ncalls < Cardinality(Threads)
    /\ \E i \in Identities, p \in PIDs, d \in RawPayloads :
          Call(t, "update", i, p, d, NoParams)

\* One statement of RecordService.update on thread t.
UpdateStep(t) ==
    \/ Resolve(t)
    \/ RequirePermission(t)
    \/ Load(t)
    \/ ComponentLoop(t)
    \/ Apply(t)
    \/ StripNone(t)
    \/ RecordCommit(t)
    \/ SessionCommit(t)
    \/ Index(t)
    \/ ReturnValue(t)

NextConcurrent == \E t \in Threads : StartUpdate(t) \/ UpdateStep(t) \/ Return(t)

SpecConcurrent == InitConcurrent /\ [][NextConcurrent]_vars

\* ------------------------------------------------------------ properties
\* The kinds of call operation t has made so far.
Kinds(t) == {trace[t][k].e : k \in 1..Len(trace[t])}
Events(t) == {trace[t][k] : k \in 1..Len(trace[t])}

\* Calls that allocate, run a hook, or write to the store or the index.
StateChanging == {"alloc", "hook", "rcommit", "rdelete", "commit", "index", "idxdel"}

\* The store and the index are as operation t found them.
AsFound(t) ==
    /\ db = before[t].db
    /\ index = before[t].index
    /\ session[t] = before[t].session
    /\ nextPid = before[t].nextPid

Lacks(t) == ~PermissionAllows(identity[t], op[t])
ByPid(t) == op[t] \in {"read", "update", "delete"}

\* The row the id passed to operation t named when the operation started.
RowAtStart(t) ==
    LET b == before[t]
    IN  IF b.session[id_[t]].st # "none" THEN b.session[id_[t]] ELSE b.db[id_[t]]

\* The id passed to operation t resolved to a record when it started.
ResolvesAtStart(t) == RowAtStart(t).st = "live"

\* C1 as stated: an operation called by an identity lacking the permission
\* fails with PermissionDenied, whatever the id and the payload.
C1_DeniedForAnyId ==
    \A t \in Threads : Done(t) /\ Lacks(t) => result[t] = "PermissionDenied"

\* C1 amended: an identity lacking the permission gets PermissionDenied from
\* search and create always, and from read, update and delete when the id
\* resolves to a record; when it resolves to none they fail with NotFound.
C1_DeniedWhenResolved ==
    \A t \in Threads :
        Done(t) /\ Lacks(t) =>
            result[t] = IF ByPid(t) /\ ~ResolvesAtStart(t)
                        THEN "NotFound" ELSE "PermissionDenied"

C1_Witness ==
    \E t \in Threads : /\ Done(t) /\ Lacks(t) /\ op[t] = "delete"
                       /\ ResolvesAtStart(t) /\ result[t] = "PermissionDenied"

\* C2: an operation whose permission check denies the identity has allocated
\* no record, run no hook and made no store or index call, and the store, the
\* session and the index are as they were when it started.
C2_DenialChangesNothing ==
    \A t \in Threads :
        result[t] = "PermissionDenied" =>
            /\ Kinds(t) \cap (StateChanging \cup {"apply", "clear_none"}) = {}
            /\ AsFound(t)

C2_Witness ==
    \E t \in Threads : /\ result[t] = "PermissionDenied" /\ op[t] = "update"
                       /\ identity[t] = "searcher"
                       /\ db[id_[t]].st = "live" /\ index[id_[t]].st = "live"

\* C3: an index or index-delete call is made only after the transaction
\* commit of the same operation succeeded, never after a failed commit, and
\* what a successful index call wrote is the committed row.
C3_IndexAfterCommit ==
    \A t \in Threads :
        /\ \A k \in 1..Len(trace[t]) :
              trace[t][k].e \in {"index", "idxdel"} =>
                  \E j \in 1..(k - 1) : trace[t][j] = Ev("commit", "", TRUE)
        /\ Ev("commit", "", FALSE) \in Events(t) =>
              Kinds(t) \cap {"index", "idxdel"} = {}
        /\ Ev("index", "", TRUE) \in Events(t) =>
              db[record[t].pid] = index[record[t].pid]
        /\ Ev("idxdel", "", TRUE) \in Events(t) =>
              db[record[t].pid].st = "deleted"

C3_Witness ==
    \E t \in Threads : /\ Done(t) /\ op[t] = "update" /\ result[t] = "ok"
                       /\ index[id_[t]] # before[t].index[id_[t]]
                       /\ index[id_[t]] = db[id_[t]]

\* The change operation t is making, as the store and as the index show it.
StoreReflects(t) ==
    IF op[t] = "delete" THEN db[record[t].pid].st = "deleted"
    ELSE db[record[t].pid] = Row("live", record[t].data)
IndexReflects(t) ==
    IF op[t] = "delete" THEN index[record[t].pid].st = "absent"
    ELSE index[record[t].pid] = Row("live", record[t].data)
Writing(t) == Done(t) /\ op[t] \in {"create", "update", "delete"}

\* C4 as stated: when a create, update or delete has ended, by returning or
\* by raising any error, the store and the index both reflect its change or
\* neither was changed.
C4_BothOrNeither ==
    \A t \in Threads :
        Writing(t) =>
            \/ record[t].pid # 0 /\ StoreReflects(t) /\ IndexReflects(t)
            \/ db = before[t].db /\ index = before[t].index

\* C4 amended: with requests running one at a time, a create, update or
\* delete that returns leaves its change in both the store and the index, one
\* that raises up to and including the transaction commit leaves both as they
\* were, and one whose index call fails after the commit leaves the change in
\* the store and the index as it was.
C4_ConvergentUnlessIndexFails ==
    \A t \in Threads :
        Writing(t) =>
            CASE result[t] = "ok" -> StoreReflects(t) /\ IndexReflects(t)
              [] result[t] = "IndexError" ->
                    StoreReflects(t) /\ index = before[t].index
              [] OTHER -> db = before[t].db /\ index = before[t].index

C4_Witness ==
    \E t \in Threads : /\ Writing(t) /\ op[t] = "update"
                       /\ result[t] = "IndexError"
                       /\ db[id_[t]] # before[t].db[id_[t]]
                       /\ index[id_[t]] = before[t].db[id_[t]]

\* C5 as stated: a read of the PID a create has just returned gives back the
\* validated data submitted to that create, in every submitted field.
C5_RoundTripAnyConfig ==
    \A t \in Threads :
        Done(t) /\ op[t] = "read" /\ result[t] = "ok"
                /\ last.kind = "create" /\ last.pid = id_[t] =>
            \A f \in InputFields : ret[t].item.data[f] = last.data[f]

\* Some configured component's create hook stores the validated data.
StoresData == \E k \in 1..Len(config.components) : config.components[k] = "Data"

\* C5 amended: when a configured component's create hook stores the validated
\* data in the record, a read of the PID a create has just returned gives
\* back the validated data submitted to that create, in every submitted field.
C5_RoundTripWhenStored ==
    \A t \in Threads :
        Done(t) /\ op[t] = "read" /\ result[t] = "ok" /\ StoresData
                /\ last.kind = "create" /\ last.pid = id_[t] =>
            \A f \in InputFields : ret[t].item.data[f] = last.data[f]

C5_Witness ==
    \E t \in Threads : /\ Done(t) /\ op[t] = "read" /\ result[t] = "ok"
                       /\ StoresData /\ last.kind = "create" /\ last.pid = id_[t]
                       /\ last.data = Payload("X", "N")
                       /\ ret[t].item.data["title"] = "X"
                       /\ ret[t].item.data["note"] = "N"
                       /\ ret[t].item.data["slug"] = "X"

\* What update commits for a record with payload r and validated data d.
UpdatedPayload(r, d) ==
    ClearNone(DictUpdate(RunHooks(Components, "update", d, r), d))

C8_SearchKeepsFilter ==
    \A t \in Threads :
        op[t] = "search" /\ Ev("execute", "", TRUE) \in Events(t) =>
            /\ search[t].filter = [action |-> "read", identity |-> identity[t]]
            /\ ret[t].hits \subseteq {p \in PIDs : index[p].st = "live"}
            /\ "read" \notin Allowed(identity[t]) => ret[t].hits = {}

C8_Witness ==
    \E t \in Threads : /\ Done(t) /\ op[t] = "search" /\ result[t] = "ok"
                       /\ identity[t] = "searcher" /\ params[t].page = 2
                       /\ Ev("hook", "Facet", TRUE) \in Events(t)
                       /\ Len(search[t].clauses) = 3
                       /\ \E p \in PIDs : index[p].st = "live"
                       /\ ret[t].hits = {}

\* The place of component c in the configured order.
Place(c) == CHOOSE k \in 1..Len(config.components) : config.components[k] = c

\* The loop over the components of operation t has ended without an error.
HooksDone(t) ==
    /\ op[t] # "none"
    /\ \E k \in 1..(pc[t] - 1) : Program(op[t])[k] = "hooks"

\* C9: hooks are called in the configured order; a component is called only
\* after every earlier component that has the hook has returned, lacking the
\* hook neither fails nor ends the loop, and in create a component placed
\* after the one that stores the data sees the stored title.
C9_HooksInConfiguredOrder ==
    \A t \in Threads :
        /\ \A i, j \in 1..Len(trace[t]) :
              i < j /\ trace[t][i].e = "hook" /\ trace[t][j].e = "hook" =>
                  Place(trace[t][i].c) < Place(trace[t][j].c)
        /\ \A j \in 1..Len(trace[t]) :
              trace[t][j].e = "hook" =>
                  \A k \in 1..(Place(trace[t][j].c) - 1) :
                      op[t] \in Hooks(config.components[k]) =>
                          Ev("hook", config.components[k], TRUE) \in Events(t)
        /\ HooksDone(t) =>
              \A k \in 1..Len(config.components) :
                  op[t] \in Hooks(config.components[k]) =>
                      Ev("hook", config.components[k], TRUE) \in Events(t)
        /\ HooksDone(t) /\ op[t] = "create" /\ StoresData
                        /\ data[t]["title"] \notin {Missing, Null} =>
              record[t].data["slug"] = data[t]["title"]

C9_Witness ==
    \E t \in Threads : /\ HooksDone(t) /\ op[t] = "create"
                       /\ config.components = <<"Data", "Facet", "Mark", "Audit">>
                       /\ Ev("hook", "Data", TRUE) \in Events(t)
                       /\ Ev("hook", "Mark", TRUE) \in Events(t)
                       /\ "hook" \notin {e.e : e \in Events(t) \ {Ev("hook", "Data", TRUE),
                                                                 Ev("hook", "Mark", TRUE)}}
                       /\ record[t].data["slug"] = "X"

\* C10: a create or update that fails schema validation has allocated no
\* record, run no hook, left the record's payload as resolved and made no
\* store or index call; the store, the session and the index are as found.
C10_InvalidChangesNothing ==
    \A t \in Threads :
        result[t] = "ValidationError" /\ op[t] \in {"create", "update"} =>
            /\ Kinds(t) \cap (StateChanging \cup {"apply", "clear_none"}) = {}
            /\ AsFound(t)
            /\ op[t] = "create" => record[t] = NoRecord
            /\ op[t] = "update" => record[t] = [pid |-> id_[t], data |-> RowAtStart(t).data]

C10_Witness ==
    \E t \in Threads : /\ result[t] = "ValidationError" /\ op[t] = "update"
                       /\ data[t]["title"] = "BAD"
                       /\ db[id_[t]].st = "live" /\ db[id_[t]].data["title"] = "X"

\* How many calls of the given kind operation t has made so far.
Count(t, kind) == Cardinality({k \in 1..Len(trace[t]) : trace[t][k].e = kind})

\* Every call of a kind in later is preceded by a call of kind first that
\* returned.
Precedes(t, first, later) ==
    \A k \in 1..Len(trace[t]) :
        trace[t][k].e \in later =>
            \E j \in 1..(k - 1) : trace[t][j].e = first /\ trace[t][j].ok

Mutating(t) == op[t] \in {"create", "update", "delete"}

\* C11 as stated: every run of create, update or delete makes exactly one
\* permission check, whatever id it was given.
C11_OneCheckEveryRun ==
    \A t \in Threads : Done(t) /\ Mutating(t) => Count(t, "perm") = 1

\* C11 amended: a run of create, or of update or delete whose id resolves,
\* makes exactly one permission check, before every hook and every store or
\* index call; a run of update or delete whose id does not resolve makes none;
\* a run of create or update that passed the check makes exactly one schema
\* validation, after the check and before the record commit.
C11_OneCheckWhenResolved ==
    \A t \in Threads :
        Mutating(t) =>
            /\ Count(t, "perm") <= 1 /\ Count(t, "load") <= 1
            /\ Done(t) => Count(t, "perm") = IF ByPid(t) /\ ~ResolvesAtStart(t)
                                             THEN 0 ELSE 1
            /\ Precedes(t, "perm", StateChanging \cup {"load", "apply", "clear_none"})
            /\ Precedes(t, "load", {"rcommit"}) \/ op[t] = "delete"
            /\ Done(t) /\ op[t] # "delete" /\ Ev("perm", op[t], TRUE) \in Events(t) =>
                  Count(t, "load") = 1
            /\ op[t] = "delete" => Count(t, "load") = 0

C11_Witness ==
    \E t \in Threads : /\ Done(t) /\ op[t] = "update" /\ result[t] = "ok"
                       /\ Count(t, "perm") = 1 /\ Count(t, "load") = 1
                       /\ Count(t, "hook") = 2 /\ Count(t, "index") = 1

\* A component hook of operation t has raised.
HookRaised(t) == \E c \in {"Data", "Mark", "Facet", "Audit"} : Ev("hook", c, FALSE) \in Events(t)

\* C12: when a component hook raises during create, update or delete, the
\* hook call that raised is the last call of the operation: no later component
\* runs, the payload is not applied, no record commit, record delete,
\* transaction commit or index call is made, the committed store and the
\* index are as found, and the caller gets the error.
C12_HookErrorAborts ==
    \A t \in Threads :
        Mutating(t) /\ HookRaised(t) =>
            /\ result[t] = "ComponentError"
            /\ trace[t][Len(trace[t])].e = "hook" /\ ~trace[t][Len(trace[t])].ok
            /\ \A k \in 1..Len(trace[t]) :
                  trace[t][k].e = "hook" =>
                      Place(trace[t][k].c) <= Place(trace[t][Len(trace[t])].c)
            /\ Kinds(t) \cap {"apply", "clear_none", "rcommit", "rdelete",
                               "commit", "index", "idxdel"} = {}
            /\ db = before[t].db /\ index = before[t].index

C12_Witness ==
    \E t \in Threads : /\ op[t] = "update" /\ result[t] = "ComponentError"
                       /\ Ev("hook", "Data", TRUE) \in Events(t)
                       /\ Ev("hook", "Mark", FALSE) \in Events(t)
                       /\ data[t] = Payload("X", "N")
                       /\ db[id_[t]].st = "live" /\ db[id_[t]].data["note"] = Missing

\* C13: read, update and delete resolve the id before they check the
\* permission; given an id that resolves to no record they fail with NotFound
\* for every identity, the failed resolve being the only call they make, and
\* the store, the session and the index are as found.
C13_NotFoundBeforePermission ==
    \A t \in Threads :
        ByPid(t) =>
            /\ Precedes(t, "resolve", {"perm", "load", "apply", "clear_none"}
                                          \cup StateChanging)
            /\ Done(t) /\ ~ResolvesAtStart(t) =>
                  /\ result[t] = "NotFound"
                  /\ trace[t] = <<Ev("resolve", "", FALSE)>>
                  /\ AsFound(t)

C13_Witness ==
    \E t \in Threads :
        /\ Done(t) /\ op[t] = "update" /\ identity[t] = "admin"
        /\ ~ResolvesAtStart(t) /\ result[t] = "NotFound"
        /\ \E p \in PIDs : db[p].st = "live" /\ index[p].st = "live"

\* What the create hooks of the configured components write into an empty
\* record, given the validated data d.
CreatedPayload(d) == RunHooks(config.components, "create", d, EmptyPayload)

\* No configured component has a create hook.
NoCreateHooks ==
    \A k \in 1..Len(config.components) : "create" \notin Hooks(config.components[k])

\* C14: create allocates the record with an empty payload; what it commits
\* and what it indexes is what the create hooks wrote into that record, and
\* is empty when no configured component has a create hook.
C14_CreateStoresHookOutput ==
    \A t \in Threads :
        op[t] = "create" =>
            /\ Kinds(t) \cap {"apply", "clear_none"} = {}
            /\ "alloc" \in Kinds(t) /\ "hook" \notin Kinds(t) =>
                  record[t].data = EmptyPayload
            /\ Ev("commit", "", TRUE) \in Events(t) =>
                  /\ db[record[t].pid] = Row("live", CreatedPayload(data[t]))
                  /\ NoCreateHooks => db[record[t].pid].data = EmptyPayload
            /\ Ev("index", "", TRUE) \in Events(t) =>
                  index[record[t].pid] = Row("live", CreatedPayload(data[t]))

C14_Witness ==
    \E t \in Threads : /\ Done(t) /\ op[t] = "create" /\ result[t] = "ok"
                       /\ NoCreateHooks /\ data[t] = Payload("X", "N")
                       /\ db[record[t].pid] = Row("live", EmptyPayload)
                       /\ index[record[t].pid] = Row("live", EmptyPayload)

\* No field of payload r is null, and the fields sent as null in d are absent.
NullFree(r, d) ==
    \A f \in AllFields : r[f] # Null /\ (d[f] = Null => r[f] = Missing)

\* C15: update applies the validated data after every update hook has run
\* and strips the nulls after that and before the record commit; the payload
\* a successful update commits and indexes has no null field, and a field
\* sent as null is absent from it.
C15_UpdateStripsNulls ==
    \A t \in Threads :
        op[t] = "update" =>
            /\ \A j, k \in 1..Len(trace[t]) :
                  trace[t][j].e = "hook" /\ trace[t][k].e = "apply" => j < k
            /\ "apply" \in Kinds(t) => HooksDone(t)
            /\ Precedes(t, "apply", {"clear_none"})
            /\ Precedes(t, "clear_none", {"rcommit"})
            /\ Ev("commit", "", TRUE) \in Events(t) =>
                  /\ db[id_[t]].st = "live"
                  /\ NullFree(db[id_[t]].data, data[t])
            /\ Ev("index", "", TRUE) \in Events(t) =>
                  /\ index[id_[t]].st = "live"
                  /\ NullFree(index[id_[t]].data, data[t])

C15_Witness ==
    \E t \in Threads : /\ Done(t) /\ op[t] = "update" /\ result[t] = "ok"
                       /\ data[t]["title"] = Null
                       /\ before[t].db[id_[t]].data["title"] \in {"X", Null}
                       /\ db[id_[t]].data["title"] = Missing
                       /\ index[id_[t]].data["title"] = Missing

\* No configured component has an update hook.
NoUpdateHooks ==
    \A k \in 1..Len(config.components) : "update" \notin Hooks(config.components[k])

\* C16: with no update hooks configured, the payload an update commits is the
\* validated payload with its nulls stripped: no field of the record's
\* previous payload that the new payload omits is kept.
C16_UpdateReplaces ==
    \A t \in Threads :
        op[t] = "update" /\ NoUpdateHooks /\ Ev("commit", "", TRUE) \in Events(t) =>
            db[id_[t]] = Row("live", ClearNone(data[t]))

\* An update sending only a note has returned and the committed payload still
\* has the title of the earlier update.
C16_Witness ==
    \E t \in Threads : /\ Done(t) /\ op[t] = "update" /\ result[t] = "ok"
                       /\ NoUpdateHooks /\ data[t] = Payload(Missing, "N")
                       /\ db[id_[t]].data["title"] = "X"
                       /\ db[id_[t]].data["note"] = "N"
                       /\ index[id_[t]] = db[id_[t]]

\* The calls of a search in which nothing fails, in order.
SearchCalls ==
    <<Ev("perm", "search", TRUE), Ev("search_request", "", TRUE)>>
    \o InterpreterCalls(config.interpreters)
    \o HookCalls(config.components, "search")
    \o <<Ev("execute", "", TRUE)>>

\* The request a search executes: the base request passed through the
\* interpreters and then through the search hooks, each in configured order.
FinalSearch(i, prm) ==
    RunSearchHooks(config.components,
                   RunInterpreters(config.interpreters, SearchRequest(i, FALSE), prm))

\* C17: the calls of a search are, in this order, the permission check, the
\* base request, the interpreters in configured order, the search hooks in
\* configured order and one execution; only the last call made can have
\* failed, so nothing runs after a failure; the request executed is the base
\* request passed along that chain.
C17_SearchStepOrder ==
    \A t \in Threads :
        op[t] = "search" =>
            /\ Len(trace[t]) <= Len(SearchCalls)
            /\ \A k \in 1..Len(trace[t]) :
                  /\ trace[t][k].e = SearchCalls[k].e /\ trace[t][k].c = SearchCalls[k].c
                  /\ k < Len(trace[t]) => trace[t][k].ok
            /\ Count(t, "execute") <= 1
            /\ result[t] \notin {"none", "ok"} => Ev("execute", "", TRUE) \notin Events(t)
            /\ result[t] = "ok" => trace[t] = SearchCalls
            /\ Ev("execute", "", TRUE) \in Events(t) =>
                  /\ search[t] = FinalSearch(identity[t], params[t])
                  /\ ret[t].hits = Execute(search[t])

C17_Witness ==
    \E t \in Threads : /\ Done(t) /\ op[t] = "search" /\ result[t] = "ok"
                       /\ identity[t] = "admin"
                       /\ search[t].clauses = <<"from_size", "sort", "facet">>
                       /\ Len(trace[t]) = 6
                       /\ ret[t].hits # {}

\* The PIDs with a row pending in the session when operation t started: rows
\* an earlier operation put there and never committed.
LeftPending(t) == {p \in PIDs : before[t].session[p].st # "none"}

\* C18: a create that aborts because a create hook raised leaves nothing
\* pending in the session: once a later operation has committed the
\* transaction, the store holds no row for a PID that an earlier, aborted
\* operation had allocated.
C18_AbortedCreateLeavesNothing ==
    \A t \in Threads :
        Ev("commit", "", TRUE) \in Events(t) =>
            \A p \in LeftPending(t) : db[p].st = "absent"

\* A create has returned PID 2 and committed, with it, the empty row of PID 1
\* that an earlier create allocated before its hook raised; PID 1 was never
\* indexed.
C18_Witness ==
    \E t \in Threads : /\ Done(t) /\ op[t] = "create" /\ result[t] = "ok"
                       /\ record[t].pid = 2 /\ LeftPending(t) = {1}
                       /\ before[t].db[1].st = "absent"
                       /\ db[1] = Row("live", EmptyPayload)
                       /\ index[1].st = "absent"

\* Updates of the same record have returned on both threads t and u and
\* neither caller has taken its result yet.
BothUpdated(t, u) ==
    /\ t # u /\ Done(t) /\ Done(u)
    /\ op[t] = "update" /\ op[u] = "update"
    /\ result[t] = "ok" /\ result[u] = "ok"
    /\ id_[t] = id_[u]

\* C19 as stated: once two concurrent updates of a record have both
\* returned, the index document of the record equals the row last committed.
C19_IndexEqualsLastCommitted ==
    \A t, u \in Threads : BothUpdated(t, u) => index[id_[t]] = db[id_[t]]

\* C19 amended: once two concurrent updates of a record have both returned,
\* the store holds the payload of the update that committed last and the
\* index the payload of the update that indexed last; they are equal when
\* the same update did both.
C19_IndexFollowsLastIndexer ==
    \A t, u \in Threads :
        BothUpdated(t, u) =>
            LET p == id_[t]
                w == writer[p]
            IN  /\ w.store \in {t, u} /\ w.index \in {t, u}
                /\ db[p] = Row("live", record[w.store].data)
                /\ index[p] = Row("live", record[w.index].data)
                /\ w.store = w.index => index[p] = db[p]

\* Thread u was called after t had committed, u committed and indexed, and
\* then t indexed: the index holds the payload of t, the store that of u.
C19_Witness ==
    \E t, u \in Threads :
        /\ BothUpdated(t, u)
        /\ writer[id_[t]] = [store |-> u, index |-> t]
        /\ before[u].db[id_[t]] = Row("live", record[t].data)
        /\ before[t].db[id_[t]] # before[u].db[id_[t]]
        /\ db[id_[t]] = Row("live", record[u].data)
        /\ index[id_[t]] = Row("live", record[t].data)
        /\ index[id_[t]] # db[id_[t]]

\* Calls that write to the session, the store or the index.
Persisting == {"alloc", "rcommit", "rdelete", "commit", "index", "idxdel"}

\* C20: read and search, whether they return or raise, make no record
\* commit, transaction commit, record delete, index or index-delete call, and
\* the committed store, the session and the index are as they found them.
C20_ReadSearchReadOnly ==
    \A t \in Threads :
        op[t] \in {"read", "search"} =>
            /\ Kinds(t) \cap Persisting = {}
            /\ AsFound(t)

C20_Witness ==
    \E t \in Threads : /\ Done(t) /\ op[t] = "read" /\ result[t] = "ok"
                       /\ Ev("hook", "Audit", TRUE) \in Events(t)
                       /\ ret[t].item.data["title"] = "X"
                       /\ db[id_[t]] = before[t].db[id_[t]]
                       /\ index[id_[t]].st = "live"

====
